---- MODULE Spec2Model ----
(***************************************************************************)
(* Model of src/main.ts of images-to-pdf: the images list with its add,    *)
(* remove and reorder handlers, the generate button, and generatePDF with  *)
(* its suspension points (the two awaits on loadImage).                    *)
(*                                                                         *)
(* One action is one browser task: an event handler run to completion,     *)
(* together with the microtasks it triggers.  When an image decode settles *)
(* the continuation of generatePDF runs up to its next await, and when     *)
(* generatePDF settles the finally block of the click handler runs in the  *)
(* same task.                                                              *)
(***************************************************************************)
EXTENDS Integers, Sequences, FiniteSets, TLC

\* ---------------------------------------------------------------- bounds
MaxIds == 2        \* entries ever created (crypto.randomUUID values)
MaxGens == 2       \* generatePDF calls ever started
MaxFiles == 2      \* accepted files in one addFiles call
MaxBatches == 1    \* addFiles calls with reads still outstanding

\* ------------------------------------------------------------- the files
\* A file is identified by the pixel dimensions its bytes decode to.
Files == {"portrait", "landscape"}

ImgWidth(f) == IF f = "landscape" THEN 800 ELSE 600
ImgHeight(f) == IF f = "landscape" THEN 600 ELSE 800

NoEntry == [id |-> 0, file |-> "none"]

\* ------------------------------------------------------------- sequences
\* Array.prototype.splice(k, 1) and splice(k, 0, x), with 1-based k.
RemoveAt(s, k) == [j \in 1..(Len(s) - 1) |-> IF j < k THEN s[j] ELSE s[j + 1]]
InsertAt(s, k, x) ==
    [j \in 1..(Len(s) + 1) |-> IF j < k THEN s[j] ELSE IF j = k THEN x ELSE s[j - 1]]
Move(s, old, new) == InsertAt(RemoveAt(s, old), new, s[old])

\* images.findIndex((e) => e.id === id), 1-based, 0 when absent
FindIndex(s, id) ==
    IF \E k \in 1..Len(s) : s[k].id = id
    THEN CHOOSE k \in 1..Len(s) : s[k].id = id /\ \A j \in 1..(k - 1) : s[j].id # id
    ELSE 0

\* ------------------------------------------------- JavaScript numbers
\* img.width / img.height, pageW / pageH and the rest of the layout are
\* computed on IEEE 754 binary64 values, every operation rounding to
\* nearest, ties to even.  A mantissa has 53 bits, more than an integer
\* of the model checker holds, so naturals are little-endian sequences of
\* limbs below Base, with no zero limb at the top.
Base == 32768
LimbBits == 15
Precision == 53

RECURSIVE Pow2(_)
Pow2(k) == IF k = 0 THEN 1 ELSE 2 * Pow2(k - 1)

RECURSIVE BNorm(_)
BNorm(a) == IF a = <<>> THEN a
            ELSE IF a[Len(a)] = 0 THEN BNorm(SubSeq(a, 1, Len(a) - 1)) ELSE a

RECURSIVE BFromInt(_)
BFromInt(n) == IF n = 0 THEN <<>> ELSE <<n % Base>> \o BFromInt(n \div Base)

BOne == <<1>>

RECURSIVE BCmpFrom(_, _, _)
BCmpFrom(a, b, k) ==
    IF k = 0 THEN 0
    ELSE IF a[k] > b[k] THEN 1
    ELSE IF a[k] < b[k] THEN -1
    ELSE BCmpFrom(a, b, k - 1)

BCmp(a, b) ==
    IF Len(a) > Len(b) THEN 1
    ELSE IF Len(a) < Len(b) THEN -1
    ELSE BCmpFrom(a, b, Len(a))

Limb(a, k) == IF k <= Len(a) THEN a[k] ELSE 0

RECURSIVE BAddFrom(_, _, _, _)
BAddFrom(a, b, k, c) ==
    IF k > Len(a) /\ k > Len(b)
    THEN (IF c = 0 THEN <<>> ELSE <<c>>)
    ELSE LET t == Limb(a, k) + Limb(b, k) + c
         IN <<t % Base>> \o BAddFrom(a, b, k + 1, t \div Base)

BAdd(a, b) == BAddFrom(a, b, 1, 0)

\* a - b for a >= b
RECURSIVE BSubFrom(_, _, _, _)
BSubFrom(a, b, k, c) ==
    IF k > Len(a) THEN <<>>
    ELSE LET t == a[k] - Limb(b, k) - c
         IN <<IF t < 0 THEN t + Base ELSE t>> \o BSubFrom(a, b, k + 1, IF t < 0 THEN 1 ELSE 0)

BSub(a, b) == BNorm(BSubFrom(a, b, 1, 0))

\* a * m + c for a limb m and a carry c below Base
RECURSIVE BMulLimbFrom(_, _, _, _)
BMulLimbFrom(a, m, k, c) ==
    IF k > Len(a)
    THEN (IF c = 0 THEN <<>> ELSE <<c>>)
    ELSE LET t == a[k] * m + c
         IN <<t % Base>> \o BMulLimbFrom(a, m, k + 1, t \div Base)

BMulLimb(a, m) == BNorm(BMulLimbFrom(a, m, 1, 0))

Zeros(n) == [k \in 1..n |-> 0]

\* a * 2^s
BShl(a, s) ==
    IF a = <<>> THEN a
    ELSE Zeros(s \div LimbBits) \o BMulLimb(a, Pow2(s % LimbBits))

RECURSIVE BMul(_, _)
BMul(a, b) ==
    IF a = <<>> \/ b = <<>> THEN <<>>
    ELSE LET rest == BMul(a, Tail(b))
         IN BAdd(BMulLimb(a, Head(b)), IF rest = <<>> THEN rest ELSE <<0>> \o rest)

RECURSIVE IntBitLen(_)
IntBitLen(n) == IF n = 0 THEN 0 ELSE 1 + IntBitLen(n \div 2)

BBitLen(a) == IF a = <<>> THEN 0 ELSE LimbBits * (Len(a) - 1) + IntBitLen(a[Len(a)])

BBit(a, k) == (Limb(a, k \div LimbBits + 1) \div Pow2(k % LimbBits)) % 2

\* 2a + bit
BDouble(a, bit) == BNorm(BMulLimbFrom(a, 2, 1, bit))

\* Long division of n by d, one bit of n at a time from the top: cnt bits
\* from bit k downwards, continuing from quotient q and remainder r.
RECURSIVE BDivBits(_, _, _, _, _, _)
RECURSIVE BDivStep(_, _, _, _, _, _)
BDivStep(n, d, k, cnt, q, r2) ==
    IF BCmp(r2, d) >= 0
    THEN BDivBits(n, d, k - 1, cnt - 1, BDouble(q, 1), BSub(r2, d))
    ELSE BDivBits(n, d, k - 1, cnt - 1, BDouble(q, 0), r2)

BDivBits(n, d, k, cnt, q, r) ==
    IF cnt = 0 THEN <<q, r>>
    ELSE BDivStep(n, d, k, cnt, q, BDouble(r, BBit(n, k)))

\* ... one limb of n at a time, from limb j downwards
RECURSIVE BDivLimbs(_, _, _, _)
BDivLimbs(n, d, j, qr) ==
    IF j = 0 THEN qr
    ELSE LET step == BDivBits(n, d, LimbBits * j - 1, LimbBits, qr[1], qr[2])
         IN IF Len(step) = 2 THEN BDivLimbs(n, d, j - 1, step) ELSE step

\* quotient and remainder of n by d
BDivMod(n, d) == BDivLimbs(n, d, Len(n), <<<<>>, <<>>>>)

\* floor(a / m) for 0 < m < Base, from the top limb down
RECURSIVE BDivLimbFrom(_, _, _, _)
BDivLimbFrom(a, m, k, r) ==
    IF k = 0 THEN <<>>
    ELSE LET t == r * Base + a[k]
         IN BDivLimbFrom(a, m, k - 1, t % m) \o <<t \div m>>

BDivLimb(a, m) == BNorm(BDivLimbFrom(a, m, Len(a), 0))

\* A number is [s, m, e] with value s * m * 2^e, s in {-1, 0, 1} and m of
\* exactly Precision bits (zero: s = 0, m = <<>>, e = 0).
FZero == [s |-> 0, m |-> <<>>, e |-> 0]

\* s * m * 2^e, for m of Precision or Precision + 1 bits (the carry out of
\* the rounding)
FNormal(s, e, m) ==
    IF BBitLen(m) > Precision
    THEN [s |-> s, m |-> BDivLimb(m, 2), e |-> e + 1]
    ELSE [s |-> s, m |-> m, e |-> e]

\* round to nearest, ties to even: m0 are the bits kept, low the bits
\* dropped, half their midpoint, sticky whether a remainder was left
FRoundUp(s, e, m0, low, half, sticky) ==
    FNormal(s, e, IF low > half \/ (low = half /\ (sticky \/ m0[1] % 2 = 1))
                  THEN BAdd(m0, BOne) ELSE m0)

\* q of Precision + drop bits
FRoundDrop(s, e, q, sticky, drop) ==
    FRoundUp(s, e + drop, BDivLimb(q, Pow2(drop)), q[1] % Pow2(drop),
             Pow2(drop - 1), sticky)

FRoundQuot(s, e, qr) ==
    FRoundDrop(s, e, qr[1], qr[2] # <<>>, BBitLen(qr[1]) - Precision)

\* the quotient of n * 2^k by d has Precision + 2 or Precision + 3 bits
FRoundShift(s, n, d, e0, k) ==
    FRoundQuot(s, e0 - k, BDivMod(BShl(n, IF k > 0 THEN k ELSE 0),
                                  BShl(d, IF k < 0 THEN -k ELSE 0)))

\* s * (n / d) * 2^e0 rounded to nearest, ties to even (n, d naturals, d > 0)
FRound(s, n, d, e0) ==
    IF n = <<>> \/ s = 0 THEN FZero
    ELSE FRoundShift(s, n, d, e0, (Precision + 2) - (BBitLen(n) - BBitLen(d)))

FFromInt(n) == FRound(1, BFromInt(n), BOne, 0)

\* a / b, a * b
FDiv(a, b) == FRound(a.s * b.s, a.m, b.m, a.e - b.e)
FMul(a, b) == FRound(a.s * b.s, BMul(a.m, b.m), BOne, a.e + b.e)

\* a / 2 (exact)
FHalf(a) == IF a.s = 0 THEN a ELSE [a EXCEPT !.e = a.e - 1]

Min(x, y) == IF x < y THEN x ELSE y

\* the mantissa of a at exponent e <= a.e
Mant(a, e) == IF a.s = 0 THEN <<>> ELSE BShl(a.m, a.e - e)

LowExp(a, b) ==
    IF a.s = 0 THEN b.e ELSE IF b.s = 0 THEN a.e ELSE Min(a.e, b.e)

\* the sign of a - b, for a, b >= 0
FCmpAt(a, b, e) == BCmp(Mant(a, e), Mant(b, e))
FCmp(a, b) == FCmpAt(a, b, LowExp(a, b))

\* a - b, for a, b >= 0: the exact difference of the mantissas x, y at the
\* lower exponent e, rounded
FSubSign(x, y, e, c) ==
    IF c = 0 THEN FZero
    ELSE IF c > 0 THEN FRound(1, BSub(x, y), BOne, e)
    ELSE FRound(-1, BSub(y, x), BOne, e)

FSubMant(x, y, e) == FSubSign(x, y, e, BCmp(x, y))
FSubAt(a, b, e) == FSubMant(Mant(a, e), Mant(b, e), e)
FSub(a, b) == FSubAt(a, b, LowExp(a, b))

\* ---------------------------------------------------------------- layout
\* jsPDF format "a4" in unit "pt" is 595.28 x 841.89; the decimal literals
\* denote the nearest binary64 values.
A4Short == FRound(1, BFromInt(59528), BFromInt(100), 0)
A4Long == FRound(1, BFromInt(84189), BFromInt(100), 0)

\* doc.internal.pageSize.getWidth() / getHeight() of a page
PageW(landscape) == IF landscape THEN A4Long ELSE A4Short
PageH(landscape) == IF landscape THEN A4Short ELSE A4Long

\* "Image is wider relative to page - fit to width"
FitWidthBox(pageW, pageH, drawH) ==
    [fit |-> "width", drawW |-> pageW, drawH |-> drawH,
     drawX |-> FZero, drawY |-> FHalf(FSub(pageH, drawH))]

FitWidth(imgRatio, pageW, pageH) == FitWidthBox(pageW, pageH, FDiv(pageW, imgRatio))

\* "Image is taller relative to page - fit to height"
FitHeightBox(pageW, pageH, drawW) ==
    [fit |-> "height", drawW |-> drawW, drawH |-> pageH,
     drawX |-> FHalf(FSub(pageW, drawW)), drawY |-> FZero]

\* (the image stretched over the whole page)
FitHeightStretched(imgRatio, pageW, pageH) == FitHeightBox(pageW, pageH, pageW)

FitHeight(imgRatio, pageW, pageH) == FitHeightBox(pageW, pageH, FMul(pageH, imgRatio))

ImgRatio(w, h) == FDiv(FFromInt(w), FFromInt(h))
PageRatio(pageW, pageH) == FDiv(pageW, pageH)

\* (the comparison the wrong way round)
FitInverted(imgRatio, pageRatio, pageW, pageH) ==
    IF FCmp(imgRatio, pageRatio) < 0
    THEN FitWidth(imgRatio, pageW, pageH)
    ELSE FitHeight(imgRatio, pageW, pageH)

\* (equal ratios sent to the fit-to-width branch)
FitTieToWidth(imgRatio, pageRatio, pageW, pageH) ==
    IF FCmp(imgRatio, pageRatio) >= 0
    THEN FitWidth(imgRatio, pageW, pageH)
    ELSE FitHeight(imgRatio, pageW, pageH)

\* (every image fitted to the height of the page)
FitAlwaysHeight(imgRatio, pageRatio, pageW, pageH) ==
    FitHeight(imgRatio, pageW, pageH)

\* "if (imgRatio > pageRatio) ... else ..."
Fit(imgRatio, pageRatio, pageW, pageH) ==
    IF FCmp(imgRatio, pageRatio) > 0
    THEN FitWidth(imgRatio, pageW, pageH)
    ELSE FitHeight(imgRatio, pageW, pageH)

\* The box of an image of w x h pixels on a page of pageW x pageH.
Layout(w, h, pageW, pageH) ==
    Fit(ImgRatio(w, h), PageRatio(pageW, pageH), pageW, pageH)

\* ----------------------------------------------------------------- state
VARIABLES
    images,      \* const images: ImageEntry[]
    imageList,   \* children of #image-list: <<[id, badge]>>
    disabled,    \* generateBtn.disabled
    label,       \* generateBtn.textContent
    batches,     \* addFiles calls whose readers have not all fired
    nextId,      \* number of entries created so far
    gens,        \* the generatePDF calls in flight, by slot
    docs,        \* the jsPDF objects, by slot
    settled,     \* the generatePDF call that settled in the last task, if any
    saved,       \* the documents that doc.save wrote in the last task
    event,       \* the handler that ran as the last task
    layout       \* one run of the layout step on its own (LayoutSpec)

vars == <<images, imageList, disabled, label, batches, nextId, gens, docs,
          settled, saved, event, layout>>

Gens == 1..MaxGens

\* A slot without a generatePDF call.  snap and edited are bookkeeping for
\* the properties: the list as it stood at the click, and whether a handler
\* has changed the list since.
NoGen == [pc |-> "none", i |-> 0, landscape |-> FALSE, loading |-> NoEntry,
          snap |-> <<>>, edited |-> FALSE, err |-> "none"]

NoSettled == [gen |-> 0, pc |-> "none", err |-> "none", i |-> 0, edited |-> FALSE]

InFlight(g) == gens[g].pc \in {"first", "loop"}

\* the layout step has not been run on its own
NoLayout == [pc |-> "none", w |-> 0, h |-> 0, landscape |-> FALSE]

\* The button element comes from the page markup, which may or may not
\* carry the disabled attribute; everything else starts empty.
Init ==
    /\ images = <<>>
    /\ imageList = <<>>
    /\ disabled \in BOOLEAN
    /\ label = "Generate PDF"
    /\ batches = <<>>
    /\ nextId = 0
    /\ gens = [g \in Gens |-> NoGen]
    /\ docs = [g \in Gens |-> <<>>]
    /\ settled = NoSettled
    /\ saved = <<>>
    /\ event = "init"
    /\ layout = NoLayout

\* ------------------------------------------------------------- UI helpers
\* updateButtonState()
updateButtonState(imgs) == Len(imgs) = 0

\* updateOrderBadges()
updateOrderBadges(list) == [k \in 1..Len(list) |-> [list[k] EXCEPT !.badge = k]]

\* The handlers below do not touch generatePDF; imgs is the list they
\* leave behind.
NoGeneration(imgs) ==
    /\ gens' = [g \in Gens |-> IF InFlight(g) /\ imgs # images
                               THEN [gens[g] EXCEPT !.edited = TRUE] ELSE gens[g]]
    /\ settled' = NoSettled
    /\ saved' = <<>>
    /\ UNCHANGED docs

\* ------------------------------------------------------------- addFiles
RECURSIVE Outstanding(_)
Outstanding(bs) == IF bs = <<>> THEN 0 ELSE Len(Head(bs).rest) + Outstanding(Tail(bs))

\* addFiles(fileList): one FileReader per accepted file; nothing else
\* happens until a reader fires.  fs are the files that pass the type
\* filter; a call with none of them starts no reader and changes nothing.
AddFiles ==
    /\ Len(batches) < MaxBatches
    /\ \E n \in 1..MaxFiles : \E fs \in [1..n -> Files] :
          /\ nextId + Outstanding(batches) + n <= MaxIds
          /\ batches' = Append(batches, [total |-> n, loaded |-> 0, rest |-> fs])
    /\ NoGeneration(images)
    /\ event' = "addFiles"
    /\ UNCHANGED <<images, imageList, disabled, label, nextId, layout>>

\* (the badge numbered from the length of the list before the push)
appendImageElementBadgeBefore(list, entry, imgs) ==
    Append(list, [id |-> entry.id, badge |-> Len(imgs) - 1])

\* appendImageElement(entry), called right after images.push(entry)
appendImageElement(list, entry, imgs) ==
    Append(list, [id |-> entry.id, badge |-> Len(imgs)])

\* reader.onload of one file of one addFiles call; the readers of a call
\* fire in any order.
ReaderOnload ==
    \E b \in 1..Len(batches) : \E k \in 1..Len(batches[b].rest) :
        LET bt == batches[b]
            entry == [id |-> nextId + 1, file |-> bt.rest[k]]
            loaded == bt.loaded + 1
        IN /\ images' = Append(images, entry)
           /\ imageList' = appendImageElement(imageList, entry, images')
           /\ nextId' = nextId + 1
           /\ batches' = IF Len(bt.rest) = 1
                         THEN RemoveAt(batches, b)
                         ELSE [batches EXCEPT ![b] = [total |-> bt.total, loaded |-> loaded,
                                                      rest |-> RemoveAt(bt.rest, k)]]
           /\ disabled' = IF loaded = bt.total THEN updateButtonState(images') ELSE disabled
           /\ NoGeneration(images')
           /\ event' = "reader.onload"
           /\ UNCHANGED <<label, layout>>

\* The read of one file of one addFiles call fails (the FileReader fires
\* error, for which addFiles sets no handler): nothing runs, and loaded of
\* that call never reaches imageFiles.length.  A call whose readers have
\* all fired is dropped from batches.
ReaderOnerror ==
    \E b \in 1..Len(batches) : \E k \in 1..Len(batches[b].rest) :
        LET bt == batches[b]
        IN /\ batches' = IF Len(bt.rest) = 1
                         THEN RemoveAt(batches, b)
                         ELSE [batches EXCEPT ![b] = [total |-> bt.total, loaded |-> bt.loaded,
                                                      rest |-> RemoveAt(bt.rest, k)]]
           /\ NoGeneration(images)
           /\ event' = "reader.onerror"
           /\ UNCHANGED <<images, imageList, disabled, label, nextId, layout>>

\* ---------------------------------------------------- remove and reorder
\* The remove button of a displayed item: removeImage(entry.id)
RemoveImage ==
    \E d \in 1..Len(imageList) :
        LET id == imageList[d].id
            idx == FindIndex(images, id)
        IN /\ idx # 0
           /\ images' = RemoveAt(images, idx)
           /\ imageList' = updateOrderBadges(RemoveAt(imageList, FindIndex(imageList, id)))
           /\ disabled' = updateButtonState(images')
           /\ NoGeneration(images')
           /\ event' = "removeImage"
           /\ UNCHANGED <<label, batches, nextId, layout>>

\* Sortable onEnd: the library has moved the dragged child from oldIndex to
\* newIndex; the handler moves the entry the same way and renumbers.
OnEnd ==
    \E old \in 1..Len(imageList) : \E new \in 1..Len(imageList) :
        /\ images' = Move(images, old, new)
        /\ imageList' = updateOrderBadges(Move(imageList, old, new))
        /\ NoGeneration(images')
        /\ event' = "onEnd"
        /\ UNCHANGED <<disabled, label, batches, nextId, layout>>

\* ----------------------------------------------------------- generatePDF
\* The boxes of the two decodable files on the two pages, computed once.
Boxes ==
    <<Layout(ImgWidth("portrait"), ImgHeight("portrait"), PageW(FALSE), PageH(FALSE)),
      Layout(ImgWidth("portrait"), ImgHeight("portrait"), PageW(TRUE), PageH(TRUE)),
      Layout(ImgWidth("landscape"), ImgHeight("landscape"), PageW(FALSE), PageH(FALSE)),
      Layout(ImgWidth("landscape"), ImgHeight("landscape"), PageW(TRUE), PageH(TRUE))>>

BoxOf(file, landscape) ==
    Boxes[(IF file = "portrait" THEN 1 ELSE 3) + (IF landscape THEN 1 ELSE 0)]

NoBox == [fit |-> "none", drawW |-> FZero, drawH |-> FZero, drawX |-> FZero, drawY |-> FZero]

\* (one jsPDF object at module level, shared by all calls)
DocShared(g) == 1

\* "const doc" is a local of generatePDF: the call in slot g works on its
\* own jsPDF object.
DocOf(g) == g

\* A page of a jsPDF document: its orientation, the entry whose dataUrl
\* addImage put on it with the box, the entry whose decoded pixel
\* dimensions the box was computed from, and the call that made the page.
BlankPage(landscape, g) ==
    [landscape |-> landscape, image |-> NoEntry, sized |-> NoEntry, box |-> NoBox,
     by |-> g]

\* (every image gets a new page, the first one too)
addPageAlways(doc, i, imgLandscape, g) == Append(doc, BlankPage(imgLandscape, g))

\* "if (i > 0) doc.addPage("a4", ...)": the first image takes the page that
\* new jsPDF made; the else-if branch of the source is empty
addPage(doc, i, imgLandscape, g) ==
    IF i > 0 THEN Append(doc, BlankPage(imgLandscape, g)) ELSE doc

\* doc.addImage(images[i].dataUrl, drawX, drawY, drawW, drawH) by call g:
\* the image goes on the current (last) page
addImage(doc, entry, sized, g) ==
    [doc EXCEPT ![Len(doc)] =
        [@ EXCEPT !.image = entry, !.sized = sized, !.by = g,
                  !.box = BoxOf(sized.file, doc[Len(doc)].landscape)]]

\* generatePDF suspends at an await
Suspend(g, rec, doc) ==
    /\ gens' = [gens EXCEPT ![g] = rec]
    /\ docs' = [docs EXCEPT ![DocOf(g)] = doc]
    /\ settled' = NoSettled
    /\ saved' = <<>>
    /\ UNCHANGED <<disabled, label>>

\* (a finally block without the call of updateButtonState)
FinallyNoUpdate(g, rec) ==
    /\ gens' = [gens EXCEPT ![g] = NoGen]
    /\ docs' = [docs EXCEPT ![DocOf(g)] = <<>>]
    /\ settled' = [gen |-> g, pc |-> rec.pc, err |-> rec.err, i |-> rec.i,
                   edited |-> rec.edited]
    /\ disabled' = FALSE
    /\ label' = "Generate PDF"

\* (a finally block that leaves the label alone)
FinallyKeepsLabel(g, rec) ==
    /\ gens' = [gens EXCEPT ![g] = NoGen]
    /\ docs' = [docs EXCEPT ![DocOf(g)] = <<>>]
    /\ settled' = [gen |-> g, pc |-> rec.pc, err |-> rec.err, i |-> rec.i,
                   edited |-> rec.edited]
    /\ disabled' = updateButtonState(images)
    /\ UNCHANGED label

\* generatePDF settles, and the finally block of the click handler runs
Finally(g, rec) ==
    /\ gens' = [gens EXCEPT ![g] = NoGen]
    /\ docs' = [docs EXCEPT ![DocOf(g)] = <<>>]
    /\ settled' = [gen |-> g, pc |-> rec.pc, err |-> rec.err, i |-> rec.i,
                   edited |-> rec.edited]
    /\ disabled' = updateButtonState(images)
    /\ label' = "Generate PDF"

\* (the error is swallowed and what has been assembled is saved)
ThrowSwallowed(g, rec, err) ==
    /\ Finally(g, [rec EXCEPT !.pc = "done", !.err = err])
    /\ saved' = <<docs[DocOf(g)]>>

\* generatePDF throws: its promise rejects
Throw(g, rec, err) ==
    /\ Finally(g, [rec EXCEPT !.pc = "failed", !.err = err])
    /\ saved' = <<>>

\* The loop test i < images.length: the next await loadImage(images[i].dataUrl),
\* or doc.save("images.pdf") and the return.
LoopTest(g, rec, doc) ==
    IF rec.i < Len(images)
    THEN Suspend(g, [rec EXCEPT !.pc = "loop", !.loading = images[rec.i + 1]], doc)
    ELSE /\ Finally(g, [rec EXCEPT !.pc = "done"])
         /\ saved' = <<doc>>

\* (the button is switched to "Generating..." before the list is tested)
ClickDisablesFirst ==
    /\ ~disabled
    /\ disabled' = TRUE
    /\ label' = "Generating..."
    /\ IF Len(images) = 0
       THEN /\ event' = "click on empty list"
            /\ UNCHANGED gens
       ELSE \E g \in Gens :
               /\ gens[g].pc = "none"
               /\ \A h \in 1..(g - 1) : gens[h].pc # "none"
               /\ gens' = [gens EXCEPT ![g] =
                             [NoGen EXCEPT !.pc = "first", !.loading = images[1],
                                           !.snap = images]]
               /\ event' = "click"
    /\ settled' = NoSettled
    /\ saved' = <<>>
    /\ UNCHANGED <<images, imageList, batches, nextId, docs, layout>>

\* the click handler of generateBtn (a disabled button dispatches no click)
Click ==
    /\ ~disabled
    /\ IF Len(images) = 0
       THEN /\ event' = "click on empty list"
            /\ UNCHANGED <<disabled, label, gens>>
       ELSE \E g \in Gens :
               /\ gens[g].pc = "none"
               /\ \A h \in 1..(g - 1) : gens[h].pc # "none"
               /\ disabled' = TRUE
               /\ label' = "Generating..."
               /\ gens' = [gens EXCEPT ![g] =
                             [NoGen EXCEPT !.pc = "first", !.loading = images[1],
                                           !.snap = images]]
               /\ event' = "click"
    /\ settled' = NoSettled
    /\ saved' = <<>>
    /\ UNCHANGED <<images, imageList, batches, nextId, docs, layout>>

\* new Image() of loadImage fires onload or onerror, one of the two, once.
Outcomes == {"load", "error"}

\* The decode awaited at "const firstImg = await loadImage(images[0].dataUrl)"
\* settles: on load, new jsPDF with one page, then the first loop test.
FirstSettled(g) ==
    /\ gens[g].pc = "first"
    /\ \E outcome \in Outcomes :
         LET rec == gens[g]
             f == rec.loading.file
             landscape == ImgWidth(f) > ImgHeight(f)
         IN IF outcome = "error"
            THEN Throw(g, rec, "decode") /\ event' = "img.onerror"
            ELSE /\ LoopTest(g, [rec EXCEPT !.landscape = landscape, !.i = 0],
                             <<BlankPage(landscape, g)>>)
                 /\ event' = "img.onload"
    /\ UNCHANGED <<images, imageList, batches, nextId, layout>>

\* The decode awaited at "const img = await loadImage(images[i].dataUrl)"
\* settles: on load, the rest of the loop body, i++, and the next loop test.
\* images[i] at addImage is read after the await: it is undefined when the
\* list has become too short, and reading its dataUrl is a TypeError.
LoopSettled(g) ==
    /\ gens[g].pc = "loop"
    /\ \E outcome \in Outcomes :
         LET rec == gens[g]
             f == rec.loading.file
             imgLandscape == ImgWidth(f) > ImgHeight(f)
             doc == docs[DocOf(g)]
             paged == addPage(doc, rec.i, imgLandscape, g)
         IN IF outcome = "error"
            THEN Throw(g, rec, "decode") /\ event' = "img.onerror"
            ELSE /\ event' = "img.onload"
                 /\ IF rec.i >= Len(images)
                    THEN Throw(g, rec, "TypeError")
                    ELSE LoopTest(g, [rec EXCEPT !.i = rec.i + 1],
                                  addImage(paged, images[rec.i + 1], rec.loading, g))
    /\ UNCHANGED <<images, imageList, batches, nextId, layout>>

Next ==
    \/ AddFiles
    \/ ReaderOnload
    \/ ReaderOnerror
    \/ RemoveImage
    \/ OnEnd
    \/ Click
    \/ \E g \in Gens : FirstSettled(g)
    \/ \E g \in Gens : LoopSettled(g)

Spec == Init /\ [][Next]_vars

\* Every decode that generatePDF awaits signals load or error in the end:
\* the browser fires one of the two events of each Image whose src was set.
\* The handlers of the list and of the button run only when the user acts.
FairSpec ==
    /\ Spec
    /\ \A g \in Gens : WF_vars(FirstSettled(g)) /\ WF_vars(LoopSettled(g))

\* --------------------------------------------- the layout step on its own
\* Lines 179-200 of generatePDF for one decoded image and one current page:
\* the image sides are drawn from Sides, the page is A4 in either
\* orientation (the first page need not have the orientation of its image).
MaxSide == 4
Sides == (1..MaxSide) \cup {600, 800, 8504, 12027}

LayoutInit ==
    /\ images = <<>>
    /\ imageList = <<>>
    /\ disabled = TRUE
    /\ label = "Generate PDF"
    /\ batches = <<>>
    /\ nextId = 0
    /\ gens = [g \in Gens |-> NoGen]
    /\ docs = [g \in Gens |-> <<>>]
    /\ settled = NoSettled
    /\ saved = <<>>
    /\ event = "init"
    /\ \E w \in Sides, h \in Sides, landscape \in BOOLEAN :
          layout = [pc |-> "decoded", w |-> w, h |-> h, landscape |-> landscape]

RunLayout ==
    /\ layout.pc = "decoded"
    /\ layout' = [pc |-> "placed", w |-> layout.w, h |-> layout.h,
                  landscape |-> layout.landscape,
                  pageW |-> PageW(layout.landscape), pageH |-> PageH(layout.landscape),
                  box |-> Layout(layout.w, layout.h,
                                 PageW(layout.landscape), PageH(layout.landscape))]
    /\ UNCHANGED <<images, imageList, disabled, label, batches, nextId, gens, docs,
                   settled, saved, event>>

LayoutNext == RunLayout

LayoutSpec == LayoutInit /\ [][LayoutNext]_vars


\* ============================================================ properties
Landscape(f) == ImgWidth(f) > ImgHeight(f)

\* the entries on the pages of a document, in page order
PageImages(doc) == [k \in 1..Len(doc) |-> doc[k].image]

Running == {g \in Gens : InFlight(g)}

\* ---------------------------------------------------------------------
\* C1: a generation whose list no handler edited while it ran, and none of
\* whose decodes failed, saves exactly one document, with as many pages as
\* the list has images and the k-th image of the list on the k-th page.
C1_UneditedListOnePagePerImage ==
    [][\A g \in Gens :
          (InFlight(g) /\ settled'.gen = g /\ ~gens[g].edited /\ settled'.err # "decode")
          => /\ settled'.pc = "done"
             /\ Len(saved') = 1
             /\ Len(saved'[1]) = Len(gens[g].snap)
             /\ PageImages(saved'[1]) = gens[g].snap
             /\ gens[g].snap = images]_vars

\* a two-image list was generated without an edit and saved
C1_Witness ==
    /\ settled.pc = "done"
    /\ ~settled.edited
    /\ Len(saved) = 1
    /\ Len(saved[1]) = 2
    /\ PageImages(saved[1]) = images

\* ---------------------------------------------------------------------
\* C2: the saved document has one page per image of the list as it stood
\* at the click, in that order, whatever add, remove or reorder ran while
\* generatePDF was suspended.
C2_DocumentOfTheSnapshot ==
    [][\A g \in Gens :
          (InFlight(g) /\ settled'.gen = g /\ settled'.pc = "done")
          => PageImages(saved'[1]) = gens[g].snap]_vars

\* ---------------------------------------------------------------------
\* C3: at most one generatePDF call is in flight at any time.
C3_OneGenerationInFlight == Cardinality(Running) <= 1

\* ---------------------------------------------------------------------
\* C4: on every page of a saved document the page is landscape exactly when
\* the image placed on it is wider than high, the first page included.
C4_PageOrientationOfItsImage ==
    \A d \in 1..Len(saved) : \A k \in 1..Len(saved[d]) :
        saved[d][k].image # NoEntry
        => (saved[d][k].landscape <=> Landscape(saved[d][k].image.file))

\* ---------------------------------------------------------------------
\* C5: when a decode fails (img.onerror), at the first await or at any
\* position of the loop, the generation that awaited it is rejected, its
\* finally block has run, and doc.save was not called.
C5_DecodeFailureFailsGeneration ==
    [][event' = "img.onerror"
       => \E g \in Gens :
             /\ InFlight(g)
             /\ ~InFlight(g)'
             /\ settled'.gen = g
             /\ settled'.pc = "failed"
             /\ settled'.err = "decode"
             /\ saved' = <<>>]_vars

\* a decode failed at the second image, after the first was placed
C5_Witness ==
    /\ event = "img.onerror"
    /\ settled.pc = "failed"
    /\ settled.i = 1
    /\ saved = <<>>

\* ---------------------------------------------------------------------
\* C7: a click on the generate button while the list is empty starts no
\* generatePDF, saves nothing and leaves the disabled flag, the label and
\* the list as they were.
C7_EmptyClickIsNoOp ==
    [][(Len(images) = 0 /\ event' = "click on empty list")
       => /\ UNCHANGED <<disabled, label, images, imageList, gens, docs>>
          /\ saved' = <<>>
          /\ settled' = NoSettled]_vars

\* the enabled button was clicked on an empty list
C7_Witness == event = "click on empty list" /\ Len(images) = 0 /\ ~disabled

\* ---------------------------------------------------------------------
\* C8 as claimed: after a generation fails the button is enabled unless the
\* list is empty, the label is "Generate PDF", nothing was saved, and the
\* list holds the entries it held when the generation started.
C8_FailureListAsAtStart ==
    [][\A g \in Gens :
          (InFlight(g) /\ settled'.gen = g /\ settled'.pc = "failed")
          => /\ disabled' = (Len(images') = 0)
             /\ label' = "Generate PDF"
             /\ saved' = <<>>
             /\ images' = gens[g].snap]_vars

\* C8 as amended: ... and the failure leaves the list as it finds it, which
\* is the list of the start when no handler edited it in between.
C8_FailureLeavesListAlone ==
    [][\A g \in Gens :
          (InFlight(g) /\ settled'.gen = g /\ settled'.pc = "failed")
          => /\ disabled' = (Len(images') = 0)
             /\ label' = "Generate PDF"
             /\ saved' = <<>>
             /\ images' = images
             /\ imageList' = imageList
             /\ (~gens[g].edited => images' = gens[g].snap)]_vars

\* a generation failed after the list had been emptied under it
C8_Witness ==
    /\ settled.pc = "failed"
    /\ settled.edited
    /\ Len(images) = 0
    /\ disabled
    /\ label = "Generate PDF"

\* ---------------------------------------------------------------------
\* C9: a jsPDF object changes only in a step of the generatePDF call that
\* created it: never in a handler of the list or the button, never in a
\* step of another call; and all its pages were made by that call.
C9_DocumentOwnedByItsGeneration ==
    [][\A d \in Gens :
          docs'[d] # docs[d]
          => /\ InFlight(d)
             /\ event' \in {"img.onload", "img.onerror"}
             /\ gens'[d] # gens[d]
             /\ \A h \in Gens \ {d} : gens'[h] = gens[h] /\ docs'[h] = docs[h]
             /\ \A k \in 1..Len(docs'[d]) : docs'[d][k].by = d
             /\ \A j \in 1..Len(saved') : \A k \in 1..Len(saved'[j]) :
                    saved'[j][k].by = d]_vars

\* two calls in flight, each holding a document with an image on it
C9_Witness ==
    \A g \in {1, 2} :
        /\ InFlight(g)
        /\ docs[g] # <<>>
        /\ docs[g][1].image # NoEntry
        /\ docs[g][1].by = g

\* ------------------------------------------------ properties of the layout
\* a + b <= c as real numbers, for a, b, c >= 0
SumWithin(a, b, c) ==
    LET e == Min(LowExp(a, b), LowExp(b, c))
    IN BCmp(BAdd(Mant(a, e), Mant(b, e)), Mant(c, e)) <= 0

Placed == layout.pc = "placed"

FullPage(box, pageW, pageH) ==
    /\ box.drawX = FZero
    /\ box.drawY = FZero
    /\ box.drawW = pageW
    /\ box.drawH = pageH

\* ---------------------------------------------------------------------
\* C6: for every image with positive sides on the A4 page in either
\* orientation the box lies on the sheet: drawX >= 0, drawY >= 0,
\* drawX + drawW <= pageW and drawY + drawH <= pageH, as real numbers.
C6_BoxOnTheSheet ==
    Placed => /\ layout.box.drawX.s >= 0
              /\ layout.box.drawY.s >= 0
              /\ layout.box.drawW.s > 0
              /\ layout.box.drawH.s > 0
              /\ SumWithin(layout.box.drawX, layout.box.drawW, layout.pageW)
              /\ SumWithin(layout.box.drawY, layout.box.drawH, layout.pageH)

\* a landscape image was laid out on the portrait page, with margins above
\* and below
C6_Witness ==
    /\ Placed
    /\ layout.w > layout.h
    /\ ~layout.landscape
    /\ layout.box.fit = "width"
    /\ layout.box.drawY.s = 1

\* ---------------------------------------------------------------------
\* C10 as claimed: when imgWidth * pageH == imgHeight * pageW the layout
\* takes the fit-to-height branch and the box is the full page.
C10_EqualProductsFullPage ==
    (Placed /\ FMul(FFromInt(layout.w), layout.pageH) = FMul(FFromInt(layout.h), layout.pageW))
    => /\ layout.box.fit = "height"
       /\ FullPage(layout.box, layout.pageW, layout.pageH)

\* C10 as amended: when the two ratios that the code compares are equal
\* (imgRatio == pageRatio as computed) the layout takes the fit-to-height
\* branch and the box is the full page; on the landscape page the
\* fit-to-width branch would give the same box.
C10_EqualRatiosFullPage ==
    (Placed /\ ImgRatio(layout.w, layout.h) = PageRatio(layout.pageW, layout.pageH))
    => /\ layout.box.fit = "height"
       /\ FullPage(layout.box, layout.pageW, layout.pageH)
       /\ layout.landscape =>
             LET other == FitWidth(ImgRatio(layout.w, layout.h), layout.pageW, layout.pageH)
             IN FullPage(other, layout.pageW, layout.pageH)

\* an image of the proportions of the landscape page was laid out on it
C10_Witness ==
    /\ Placed
    /\ layout.landscape
    /\ ImgRatio(layout.w, layout.h) = PageRatio(layout.pageW, layout.pageH)
    /\ layout.box.fit = "height"

\* ---------------------------------------------------------------------
\* C11 as claimed: a square image on the portrait A4 page, whose pageRatio
\* is below 1, is laid out by the fit-to-height (else) branch, so that
\* drawH == pageH.
C11_SquareFitsHeight ==
    (Placed /\ layout.w = layout.h /\ ~layout.landscape)
    => /\ FCmp(PageRatio(layout.pageW, layout.pageH), FFromInt(1)) < 0
       /\ layout.box.fit = "height"
       /\ layout.box.drawH = layout.pageH

\* C11 as amended: a square image has imgRatio == 1.  On the portrait page
\* (pageRatio < 1) it takes the fit-to-width branch: drawW == pageW,
\* drawH == pageW, drawX == 0 and drawY == (pageH - pageW) / 2 > 0.  On the
\* landscape page (pageRatio > 1) it takes the else branch: drawH == pageH,
\* drawW == pageH, drawY == 0 and drawX == (pageW - pageH) / 2 > 0.
C11_SquareFitsShortSide ==
    (Placed /\ layout.w = layout.h)
    => /\ ImgRatio(layout.w, layout.h) = FFromInt(1)
       /\ IF layout.landscape
          THEN /\ FCmp(PageRatio(layout.pageW, layout.pageH), FFromInt(1)) > 0
               /\ layout.box.fit = "height"
               /\ layout.box.drawH = layout.pageH
               /\ layout.box.drawW = layout.pageH
               /\ layout.box.drawY = FZero
               /\ layout.box.drawX = FHalf(FSub(layout.pageW, layout.pageH))
               /\ layout.box.drawX.s = 1
          ELSE /\ FCmp(PageRatio(layout.pageW, layout.pageH), FFromInt(1)) < 0
               /\ layout.box.fit = "width"
               /\ layout.box.drawW = layout.pageW
               /\ layout.box.drawH = layout.pageW
               /\ layout.box.drawX = FZero
               /\ layout.box.drawY = FHalf(FSub(layout.pageH, layout.pageW))
               /\ layout.box.drawY.s = 1

\* a square image was laid out on the portrait page, by the fit-to-width
\* branch
C11_Witness ==
    /\ Placed
    /\ layout.w = layout.h
    /\ layout.w > 1
    /\ ~layout.landscape
    /\ layout.box.fit = "width"
    /\ layout.box.drawH = layout.pageW

\* ---------------------------------------------------------------------
\* C12: every image that is wider than high, with a ratio below that of the
\* landscape A4 page (the 800 x 600 file), lies on a landscape page of the
\* saved document and is fitted to its height: drawH == pageH,
\* drawW == pageH * width / height, drawY == 0 and
\* drawX == (pageW - drawW) / 2 > 0.
C12_WideImageFitsHeightOfLandscapePage ==
    \A d \in 1..Len(saved) : \A k \in 1..Len(saved[d]) :
        (saved[d][k].sized # NoEntry /\ Landscape(saved[d][k].sized.file))
        => /\ saved[d][k].landscape
           /\ saved[d][k].box.fit = "height"
           /\ saved[d][k].box.drawH = PageH(TRUE)
           /\ saved[d][k].box.drawW =
                 FMul(PageH(TRUE), ImgRatio(ImgWidth(saved[d][k].sized.file),
                                            ImgHeight(saved[d][k].sized.file)))
           /\ saved[d][k].box.drawY = FZero
           /\ saved[d][k].box.drawX = FHalf(FSub(PageW(TRUE), saved[d][k].box.drawW))
           /\ saved[d][k].box.drawX.s = 1

\* ---------------------------------------------------------------------
\* |x - y| for naturals x, y
AbsDiff(x, y) == IF BCmp(x, y) >= 0 THEN BSub(x, y) ELSE BSub(y, x)

\* |x - y| <= y / 2^k for naturals x, y
Within(x, y, k) == BCmp(BShl(AbsDiff(x, y), k), y) <= 0

\* |a * m - b * n| <= (b * n) / 2^k as real numbers, for a, b >= 0
ProductsWithinAt(a, m, b, n, k, e) ==
    Within(BMul(Mant(a, e), BFromInt(m)), BMul(Mant(b, e), BFromInt(n)), k)

ProductsWithin(a, m, b, n, k) == ProductsWithinAt(a, m, b, n, k, LowExp(a, b))

\* |x + x + w - p| <= p / 2^k as real numbers: the margins x and p - x - w
\* on the two sides of a box of extent w on a page of extent p differ by at
\* most p / 2^k
MarginsWithinAt(x, w, p, k, e) ==
    Within(BAdd(BAdd(Mant(x, e), Mant(x, e)), Mant(w, e)), Mant(p, e), k)

MarginsWithin(x, w, p, k) == MarginsWithinAt(x, w, p, k, Min(LowExp(x, w), p.e))

\* x + x + w == p as real numbers: the margins x and p - x - w are equal
MarginsEqualAt(x, w, p, e) ==
    BCmp(BAdd(BAdd(Mant(x, e), Mant(x, e)), Mant(w, e)), Mant(p, e)) = 0

MarginsEqual(x, w, p) == MarginsEqualAt(x, w, p, Min(LowExp(x, w), p.e))

\* C13 as claimed: the box has the proportions of the image
\* (drawW * imgHeight == drawH * imgWidth), fills one dimension of the page
\* exactly (drawW == pageW or drawH == pageH) and is centred on the other
\* axis (equal margins on both sides).
C13_ExactAspectRatioCentred ==
    Placed
    => /\ FMul(layout.box.drawW, FFromInt(layout.h))
            = FMul(layout.box.drawH, FFromInt(layout.w))
       /\ layout.box.drawW = layout.pageW \/ layout.box.drawH = layout.pageH
       /\ IF layout.box.fit = "width"
          THEN MarginsEqual(layout.box.drawY, layout.box.drawH, layout.pageH)
          ELSE MarginsEqual(layout.box.drawX, layout.box.drawW, layout.pageW)

\* C13 as amended: the box fills one dimension of the page exactly and has
\* offset 0 on that axis; its proportions are those of the image up to the
\* rounding of the two operations that compute the other dimension,
\* |drawW * imgHeight - drawH * imgWidth| <= 2^-51 * drawH * imgWidth; and on
\* the other axis the two margins differ by at most 2^-53 of the page
\* dimension, the rounding of the subtraction.
C13_AspectRatioCentredUpToRounding ==
    Placed
    => /\ ProductsWithin(layout.box.drawW, layout.h, layout.box.drawH, layout.w, 51)
       /\ IF layout.box.fit = "width"
          THEN /\ layout.box.drawW = layout.pageW
               /\ layout.box.drawX = FZero
               /\ MarginsWithin(layout.box.drawY, layout.box.drawH, layout.pageH, 53)
          ELSE /\ layout.box.drawH = layout.pageH
               /\ layout.box.drawY = FZero
               /\ MarginsWithin(layout.box.drawX, layout.box.drawW, layout.pageW, 53)

\* a box whose proportions are not exactly those of its image
C13_Witness ==
    /\ Placed
    /\ layout.box.fit = "height"
    /\ layout.box.drawX.s = 1
    /\ FMul(layout.box.drawW, FFromInt(layout.h))
          # FMul(layout.box.drawH, FFromInt(layout.w))

\* ---------------------------------------------------------------------
\* C14: when every awaited decode signals load or error in the end, every
\* generatePDF call that starts ends: it settles as done, with one document
\* saved, or as failed, with none, and at that moment the label of the
\* button is "Generate PDF" again.
C14_GenerationEnds ==
    \A g \in Gens :
        InFlight(g) ~> /\ settled.gen = g
                       /\ ~InFlight(g)
                       /\ settled.pc \in {"done", "failed"}
                       /\ settled.pc = "done" => Len(saved) = 1
                       /\ settled.pc = "failed" => saved = <<>>
                       /\ label = "Generate PDF"

\* the call in the second slot has ended with its document saved while the
\* call in the first slot is still running
C14_Witness ==
    /\ settled.gen = 2
    /\ settled.pc = "done"
    /\ Len(saved) = 1
    /\ label = "Generate PDF"
    /\ InFlight(1)

\* ---------------------------------------------------------------------
\* C15: on every page of a saved document the entry whose dataUrl addImage
\* embedded is the entry that was decoded at the start of that loop
\* iteration, from whose pixel dimensions the box was computed.
C15_BoxOfTheEmbeddedImage ==
    \A d \in 1..Len(saved) : \A k \in 1..Len(saved[d]) :
        saved[d][k].image # NoEntry
        => /\ saved[d][k].image = saved[d][k].sized
           /\ saved[d][k].box = BoxOf(saved[d][k].image.file, saved[d][k].landscape)

\* ---------------------------------------------------------------------
\* C16: every images[i] that generatePDF reads is an entry of the list at
\* the moment of the read, so that no read of its dataUrl throws: a
\* generatePDF call is rejected only because a decode failed.
C16_FailsOnlyOnDecodeFailure ==
    settled.pc = "failed" => (settled.err = "decode" /\ event = "img.onerror")

\* ---------------------------------------------------------------------
\* no generatePDF call is in flight and no FileReader of addFiles has still
\* to fire
Quiet == Running = {} /\ batches = <<>>

\* C17: whenever no generation is in flight and no file read is pending,
\* the generate button is disabled exactly when the list is empty; here for
\* a list that is not empty: the button is then enabled.
C17_ButtonEnabledForNonEmptyList ==
    (Quiet /\ Len(images) > 0) => ~disabled

\* ---------------------------------------------------------------------
\* C18: after every reader.onload, removeImage and onEnd the displayed list
\* holds the entries of the images array in the same order, and the badge
\* of every displayed item is its 1-based index in the images array.
C18_DisplayedListIsTheArray ==
    /\ Len(imageList) = Len(images)
    /\ \A k \in 1..Len(imageList) :
          /\ imageList[k].id = images[k].id
          /\ imageList[k].badge = k

\* the second entry added was dragged to the front of a list of two
C18_Witness ==
    /\ event = "onEnd"
    /\ Len(images) = 2
    /\ images[1].id = 2
    /\ imageList[1].id = 2
    /\ imageList[1].badge = 1
    /\ imageList[2].badge = 2

====
